---- MODULE Spec2Model ----
(***************************************************************************)
(* State-machine model of src/agent/day2_memory_agent.py (the think / tool  *)
(* / answer LangGraph pipeline, its MemorySaver checkpointer and the        *)
(* __main__ driver loop) and of src/agent/day1_chat_agent.py (the           *)
(* interactive multi_round_chat loop).                                      *)
(*                                                                         *)
(* Text is a sequence of tokens; the token WS stands for one whitespace     *)
(* character, so that str.strip() is computed and not assumed.              *)
(* A run executes one of the two programs; `program` says which.            *)
(***************************************************************************)
EXTENDS Integers, Sequences, FiniteSets, TLC

VARIABLES
    program,              \* which __main__ is running
    pc,                   \* day2: position of the driver / graph
    current_state,        \* day2: the driver's dict (line 326)
    state,                \* day2: the graph's working AgentState during invoke
    store,                \* day2: MemorySaver, thread_id -> latest checkpoint
    failure,              \* day2: the node whose exception ended the process
    llm_decision,         \* day2: the decision model's response of this turn
    stages,               \* day2: nodes executed in this turn, in order
    llm_calls,            \* day2: model invocations made in this turn
    tool_calls,           \* day2: registry tools invoked in this turn
    turns,                \* day2: the turns that reached END, in order
    store_before,         \* day2: the store when the current turn was started
    chat_pc,              \* day1: position of multi_round_chat
    conversation_history, \* day1: the list of line 72
    history_before,       \* day1: conversation_history before this turn's append
    n_events,             \* day1: events of the current stream handled so far
    chat_outcome,         \* day1: how the last turn ended
    chat_turns,           \* day1: turns started
    replies,              \* day1: contents of the AIMessages the agent has streamed
    deduped               \* day1: line 105 has refused an entry in this turn

vars == <<program, pc, current_state, state, store, failure, llm_decision,
          stages, llm_calls, tool_calls, turns, store_before, chat_pc,
          conversation_history, history_before, n_events, chat_outcome,
          chat_turns, replies, deduped>>

day2vars == <<pc, current_state, state, store, failure, llm_decision, stages,
              llm_calls, tool_calls, turns, store_before>>

day1vars == <<chat_pc, conversation_history, history_before, n_events,
              chat_outcome, chat_turns, replies, deduped>>

(***************************************************************************)
(* Bounds                                                                   *)
(***************************************************************************)
\* turns the day2 driver loop reads before the model stops it
MaxTurns == 3
\* turns the day1 loop reads
MaxChatTurns == 3
\* events one day1 stream yields at most
MaxEvents == 4

(***************************************************************************)
(* Text and str.strip()                                                     *)
(***************************************************************************)
WS == " "

RECURSIVE LStrip(_)
LStrip(s) == IF s # <<>> /\ Head(s) = WS THEN LStrip(Tail(s)) ELSE s

RECURSIVE RStrip(_)
RStrip(s) ==
    IF s # <<>> /\ s[Len(s)] = WS THEN RStrip(SubSeq(s, 1, Len(s) - 1)) ELSE s

\* str.strip(): leading and trailing whitespace removed
Strip(s) == RStrip(LStrip(s))

(***************************************************************************)
(* Messages                                                                 *)
(***************************************************************************)
HumanMessage(c) == [type |-> "human", content |-> c]
AIMessage(c) == [type |-> "ai", content |-> c]
ToolMessage(c) == [type |-> "tool", content |-> c]

(***************************************************************************)
(* JSON values as json.loads returns them.  t is the Python type, s the     *)
(* text of a str, d the items of a dict as a set of <<key, text>>.          *)
(***************************************************************************)
JStr(x) == [t |-> "str", s |-> x, d |-> {}]
JDict(items) == [t |-> "dict", s |-> <<>>, d |-> items]
JInt == [t |-> "int", s |-> <<>>, d |-> {}]
JNone == [t |-> "NoneType", s |-> <<>>, d |-> {}]
JList == [t |-> "list", s |-> <<>>, d |-> {}]

\* a parsed top-level value: a dict with some of the two keys, or not a dict
Decoded(t, keys, name, input) ==
    [t |-> t, keys |-> keys, tool_name |-> name, tool_input |-> input]

\* dict.get(key, default)
DictGet(dict, key, default) ==
    IF key = "tool_name" /\ "tool_name" \in dict.keys THEN dict.tool_name
    ELSE IF key = "tool_input" /\ "tool_input" \in dict.keys THEN dict.tool_input
    ELSE default

(***************************************************************************)
(* AgentState and get_initial_state                                         *)
(***************************************************************************)
get_initial_state ==
    [user_input |-> <<>>, chat_history |-> <<>>, tool_name |-> <<>>,
     tool_input |-> JDict({}), tool_result |-> <<>>, final_answer |-> <<>>]

thread_id == "user_001"
ThreadIds == {thread_id}

\* MemorySaver: what checkpointer.get returns for a thread
NoCheckpoint == [exists |-> FALSE, channel_values |-> get_initial_state]
Checkpoint(values) == [exists |-> TRUE, channel_values |-> values]

\* debug_checkpoint: the chat_history read back from the store
PersistedHistory(cp) == IF cp.exists THEN cp.channel_values.chat_history ELSE <<>>

(***************************************************************************)
(* The environment: user lines, model responses, the network               *)
(***************************************************************************)
\* the exit phrase of line 332 (the two-character Chinese word for "quit")
ExitPhrase == <<"EXIT">>

\* lines typed at input(): empty, blank, two questions (one padded), exit
UserInputs == {<<>>, <<WS>>, <<"hi">>, <<WS, "q2", WS>>, <<WS>> \o ExitPhrase}

\* the decision model's invoke: raises, or returns content that json.loads
\* rejects, or content that json.loads decodes to `value`
LlmRaise == [kind |-> "raise", json |-> FALSE,
             value |-> Decoded("NoneType", {}, JNone, JNone)]
LlmText == [kind |-> "content", json |-> FALSE,
            value |-> Decoded("NoneType", {}, JNone, JNone)]
LlmJson(v) == [kind |-> "content", json |-> TRUE, value |-> v]

BothKeys == {"tool_name", "tool_input"}
Expr(e) == JDict({<<"expression", e>>})

DecisionResponses ==
    { LlmRaise,
      LlmText,
      LlmJson(Decoded("list", {}, JNone, JNone)),
      LlmJson(Decoded("dict", {}, JNone, JNone)),
      LlmJson(Decoded("dict", BothKeys, JStr(<<>>), JDict({}))),
      LlmJson(Decoded("dict", BothKeys, JStr(<<WS>>), JDict({}))),
      LlmJson(Decoded("dict", BothKeys, JStr(<<"calculator">>), Expr(<<"1+1">>))),
      LlmJson(Decoded("dict", BothKeys, JStr(<<"calculator">>), Expr(<<"1+">>))),
      LlmJson(Decoded("dict", BothKeys, JStr(<<WS, "calculator", WS>>), Expr(<<"1+1">>))),
      LlmJson(Decoded("dict", BothKeys, JStr(<<"calculator">>), JStr(<<"1+1">>))),
      LlmJson(Decoded("dict", BothKeys, JStr(<<"calculator">>), JInt)),
      LlmJson(Decoded("dict", {"tool_name"}, JStr(<<"calculator">>), JNone)),
      LlmJson(Decoded("dict", BothKeys, JStr(<<"weather_query">>),
                      JDict({<<"city", <<"Beijing">>>>}))),
      LlmJson(Decoded("dict", BothKeys, JStr(<<"search">>), JDict({}))),
      LlmJson(Decoded("dict", BothKeys, JInt, JDict({}))),
      LlmJson(Decoded("dict", {"tool_input"}, JNone, Expr(<<"1+1">>))) }

\* the answer model's invoke: raises or returns .content
AnswerRaise == [kind |-> "raise", content |-> <<>>]
AnswerText(c) == [kind |-> "content", content |-> c]
AnswerResponses == {AnswerRaise, AnswerText(<<"a1">>), AnswerText(<<"a2">>)}

\* what requests.get / the weather service does
WeatherOutcomes == {"success", "desc", "exception"}

(***************************************************************************)
(* Tools (lines 42-85)                                                      *)
(***************************************************************************)
\* eval(expression, {"__builtins__": None}, {}): a value, or an exception
eval(expression) ==
    IF expression = <<"1+1">> THEN [ok |-> TRUE, result |-> <<"2">>]
    ELSE [ok |-> FALSE, result |-> <<>>]

calculator(expression) ==
    IF eval(expression).ok
    THEN <<"calc-result:">> \o expression \o <<"=">> \o eval(expression).result
    ELSE <<"calc-failed:">>

weather_query(city, net) ==
    CASE net = "success" -> city \o <<"weather-today:">>
      [] net = "desc" -> <<"query-failed:">>
      [] OTHER -> <<"weather-exception:">>

tools == {<<"weather_query">>, <<"calculator">>}

\* the one parameter of each tool's schema
ToolParam(name) == IF name = <<"calculator">> THEN "expression" ELSE "city"

\* BaseTool.invoke's input validation: a str is taken as the single argument,
\* a dict must hold the parameter; anything else raises
ToolArgs(name, input) ==
    IF input.t = "str" THEN [ok |-> TRUE, arg |-> input.s]
    ELSE IF input.t = "dict" /\ \E kv \in input.d : kv[1] = ToolParam(name)
    THEN [ok |-> TRUE,
          arg |-> (CHOOSE kv \in input.d : kv[1] = ToolParam(name))[2]]
    ELSE [ok |-> FALSE, arg |-> <<>>]

\* tools[tool_name].invoke(tool_input): the tool's text, or the exception the
\* input validation raises
ToolInvoke(name, input, net) ==
    IF ~ToolArgs(name, input).ok
    THEN [raised |-> "ValidationError", text |-> <<>>]
    ELSE IF name = <<"calculator">>
    THEN [raised |-> "", text |-> calculator(ToolArgs(name, input).arg)]
    ELSE [raised |-> "", text |-> weather_query(ToolArgs(name, input).arg, net)]

(***************************************************************************)
(* Nodes (lines 97-198)                                                     *)
(***************************************************************************)
\* json.loads of the response content
json_loads(resp) == [ok |-> resp.json, value |-> resp.value]

\* lines 118-124: the try/except around the model call and json.loads
decision_dict(resp) ==
    IF resp.kind = "raise" \/ ~json_loads(resp).ok
    THEN Decoded("dict", BothKeys, JStr(<<>>), JDict({}))
    ELSE json_loads(resp).value

\* mutant: the empty-input short cut of line 100 is missing
ThinkCallsLlmAlways(st) == TRUE

\* think_node consults the model only for a non-blank input (line 100)
ThinkCallsLlm(st) == Strip(st.user_input) # <<>>

\* lines 127-128 are outside the try: .get on a non-dict and .strip on a
\* non-str raise AttributeError out of the node
ThinkRaises(st, resp) ==
    /\ ThinkCallsLlm(st)
    /\ \/ decision_dict(resp).t # "dict"
       \/ DictGet(decision_dict(resp), "tool_name", JStr(<<>>)).t # "str"

\* mutant: the tool name is taken as the model wrote it, without .strip()
think_nodeUnstripped(st, resp) ==
    IF ~ThinkCallsLlm(st)
    THEN [st EXCEPT !.tool_name = <<>>, !.tool_input = JDict({})]
    ELSE [st EXCEPT
            !.tool_name = DictGet(decision_dict(resp), "tool_name", JStr(<<>>)).s,
            !.tool_input = DictGet(decision_dict(resp), "tool_input", JDict({}))]

think_node(st, resp) ==
    IF ~ThinkCallsLlm(st)
    THEN [st EXCEPT !.tool_name = <<>>, !.tool_input = JDict({})]
    ELSE [st EXCEPT
            !.tool_name = Strip(DictGet(decision_dict(resp), "tool_name", JStr(<<>>)).s),
            !.tool_input = DictGet(decision_dict(resp), "tool_input", JDict({}))]

\* mutant: the route looks at tool_input instead of tool_name
should_call_toolByInput(st) == IF st.tool_input.d # {} THEN "tool" ELSE "answer"

\* lines 211-215
should_call_tool(st) == IF Strip(st.tool_name) # <<>> THEN "tool" ELSE "answer"

\* mutant: the except clause names one class only
CaughtByToolNodeNarrow == {"KeyError"}

\* the exception classes `except Exception` (line 143) catches
CaughtByToolNode == {"ValidationError", "ToolException", "KeyError", "TypeError"}

\* an exception leaves tool_node when invoke raises one the except clause
\* does not catch (the lookup of line 142 is guarded by line 138)
ToolRaises(st, net) ==
    /\ st.tool_name \in tools
    /\ ToolInvoke(st.tool_name, st.tool_input, net).raised # ""
    /\ ToolInvoke(st.tool_name, st.tool_input, net).raised \notin CaughtByToolNode

tool_node(st, net) ==
    [st EXCEPT !.tool_result =
        IF st.tool_name \notin tools THEN <<"unknown-tool:">> \o st.tool_name
        ELSE IF ToolInvoke(st.tool_name, st.tool_input, net).raised # ""
        THEN <<"tool-error:">>
        ELSE ToolInvoke(st.tool_name, st.tool_input, net).text]

\* the fixed reply of line 166
ClarifyReply == <<"what-can-I-help-with">>

AnswerCallsLlm(st) == Strip(st.user_input) # <<>>

AnswerRaises(st, resp) == AnswerCallsLlm(st) /\ resp.kind = "raise"

\* mutant: the user's message is not recorded
NewChatHistoryAssistantOnly(chat_history, user_input, final_answer) ==
    IF user_input # <<>>
    THEN chat_history \o <<AIMessage(final_answer)>>
    ELSE chat_history

\* mutant: the new entries are put in front of the history
NewChatHistoryPrepending(chat_history, user_input, final_answer) ==
    IF user_input # <<>>
    THEN <<HumanMessage(user_input), AIMessage(final_answer)>> \o chat_history
    ELSE chat_history

\* lines 188-192
NewChatHistory(chat_history, user_input, final_answer) ==
    IF user_input # <<>>
    THEN chat_history \o <<HumanMessage(user_input), AIMessage(final_answer)>>
    ELSE chat_history

\* mutant: the entries are appended to the received list itself
ReceivedListAfterAnswerInPlace(chat_history, user_input, final_answer) ==
    NewChatHistory(chat_history, user_input, final_answer)

\* line 189: new_chat_history is a copy, so the list the node received (the
\* list of the driver's dict, which the channel holds by reference) is left
\* as it was by the appends of lines 191-192
ReceivedListAfterAnswer(chat_history, user_input, final_answer) == chat_history

answer_node(st, resp) ==
    LET final_answer == IF AnswerCallsLlm(st) THEN resp.content ELSE ClarifyReply
    IN [st EXCEPT !.final_answer = final_answer,
                  !.chat_history =
                      NewChatHistory(st.chat_history, Strip(st.user_input), final_answer)]

(***************************************************************************)
(* The compiled graph with its MemorySaver, and the day2 driver loop        *)
(***************************************************************************)
\* lines 218, 229, 231: the entry point and the two fixed edges
\* (mutant edges: EdgeFromToolLoop tool -> think, EdgeFromAnswerLoop
\* answer -> think)
EntryPoint == "think"
EdgeFromToolLoop == "think"
EdgeFromAnswerLoop == "think"
EdgeFromTool == "answer"
EdgeFromAnswer == "done"

\* mutant: the new checkpoint's history is merged with the stored one
SaveCheckpointMerging(st0re, values) ==
    [st0re EXCEPT ![thread_id] =
        Checkpoint([values EXCEPT !.chat_history =
                        PersistedHistory(st0re[thread_id]) \o @])]

\* compile(checkpointer=memory_saver): the graph saves a checkpoint of the
\* channel values under the thread id when the input is applied and after
\* every node, replacing the thread's latest checkpoint
SaveCheckpoint(st0re, values) == [st0re EXCEPT ![thread_id] = Checkpoint(values)]

\* mutant: the driver appends the user's message before invoking the graph
DriverInputAppending(cs, user_input) ==
    [cs EXCEPT !.user_input = user_input,
               !.chat_history = Append(@, HumanMessage(Strip(user_input)))]

\* line 337: the driver's dict with the new line
DriverInput(cs, user_input) == [cs EXCEPT !.user_input = user_input]

\* mutant: line 354 is missing, tool_result is not reset
DriverCarryKeepingToolResult(cs, final_state) ==
    [cs EXCEPT !.chat_history = final_state.chat_history,
               !.tool_name = <<>>, !.tool_input = JDict({}),
               !.tool_result = final_state.tool_result, !.final_answer = <<>>]

\* mutant: line 346 is missing, the driver does not take the history back
DriverCarryNoSync(cs, final_state) ==
    [cs EXCEPT !.tool_name = <<>>, !.tool_input = JDict({}),
               !.tool_result = <<>>, !.final_answer = <<>>]

\* lines 346-355: what the driver keeps of the returned final_state
DriverCarry(cs, final_state) ==
    [cs EXCEPT !.chat_history = final_state.chat_history,
               !.tool_name = <<>>, !.tool_input = JDict({}),
               !.tool_result = <<>>, !.final_answer = <<>>]

\* no model call was made
LlmNone == [kind |-> "none", json |-> FALSE,
            value |-> Decoded("NoneType", {}, JNone, JNone)]

\* lines 331-343: a line is read and invoke starts: every channel is written
\* from the driver's dict and the input checkpoint is saved
DriverInvoke ==
    /\ program = "day2" /\ pc = "input" /\ Len(turns) < MaxTurns
    /\ \E user_input \in UserInputs :
        /\ Strip(user_input) # ExitPhrase
        /\ current_state' = DriverInput(current_state, user_input)
        /\ state' = DriverInput(current_state, user_input)
        /\ store' = SaveCheckpoint(store, DriverInput(current_state, user_input))
    /\ store_before' = store
    /\ pc' = EntryPoint
    /\ stages' = <<>> /\ llm_calls' = 0 /\ tool_calls' = 0
    /\ llm_decision' = LlmNone
    /\ UNCHANGED <<program, failure, turns, day1vars>>

\* lines 332-334
DriverExit ==
    /\ program = "day2" /\ pc = "input"
    /\ \E user_input \in UserInputs : Strip(user_input) = ExitPhrase
    /\ pc' = "exited"
    /\ UNCHANGED <<program, current_state, state, store, failure, llm_decision,
                   stages, llm_calls, tool_calls, turns, store_before, day1vars>>

\* the think node, the conditional edge and the checkpoint after the step; an
\* exception leaves invoke and the driver loop, which has no handler
ThinkStep ==
    /\ program = "day2" /\ pc = "think"
    /\ \E resp \in (IF ThinkCallsLlm(state) THEN DecisionResponses ELSE {LlmNone}) :
        /\ llm_decision' = resp
        /\ IF ThinkRaises(state, resp)
           THEN /\ pc' = "crashed" /\ failure' = "think"
                /\ UNCHANGED <<state, store>>
           ELSE /\ state' = think_node(state, resp)
                /\ store' = SaveCheckpoint(store, think_node(state, resp))
                /\ pc' = should_call_tool(think_node(state, resp))
                /\ UNCHANGED failure
    /\ stages' = Append(stages, "think")
    /\ llm_calls' = llm_calls + (IF ThinkCallsLlm(state) THEN 1 ELSE 0)
    /\ UNCHANGED <<program, current_state, tool_calls, turns, store_before, day1vars>>

\* the tool node, the edge tool -> answer and the checkpoint after the step
ToolStep ==
    /\ program = "day2" /\ pc = "tool"
    /\ \E net \in (IF state.tool_name = <<"weather_query">>
                      /\ ToolArgs(state.tool_name, state.tool_input).ok
                   THEN WeatherOutcomes ELSE {"success"}) :
        IF ToolRaises(state, net)
        THEN /\ pc' = "crashed" /\ failure' = "tool"
             /\ UNCHANGED <<state, store>>
        ELSE /\ state' = tool_node(state, net)
             /\ store' = SaveCheckpoint(store, tool_node(state, net))
             /\ pc' = EdgeFromTool
             /\ UNCHANGED failure
    /\ stages' = Append(stages, "tool")
    /\ tool_calls' = tool_calls + (IF state.tool_name \in tools THEN 1 ELSE 0)
    /\ UNCHANGED <<program, current_state, llm_decision, llm_calls,
                   turns, store_before, day1vars>>

\* the answer node, the edge answer -> END and the checkpoint after the step
AnswerStep ==
    /\ program = "day2" /\ pc = "answer"
    /\ \E resp \in (IF AnswerCallsLlm(state) THEN AnswerResponses
                    ELSE {AnswerText(<<>>)}) :
        IF AnswerRaises(state, resp)
        THEN /\ pc' = "crashed" /\ failure' = "answer"
             /\ UNCHANGED <<state, store, turns, current_state>>
        ELSE /\ state' = answer_node(state, resp)
             /\ store' = SaveCheckpoint(store, answer_node(state, resp))
             /\ pc' = EdgeFromAnswer
             /\ turns' = Append(turns,
                   [user_input |-> state.user_input,
                    final_answer |-> answer_node(state, resp).final_answer])
             /\ current_state' =
                   [current_state EXCEPT !.chat_history =
                       ReceivedListAfterAnswer(@, Strip(state.user_input),
                           answer_node(state, resp).final_answer)]
             /\ UNCHANGED failure
    /\ stages' = Append(stages, "answer")
    /\ llm_calls' = llm_calls + (IF AnswerCallsLlm(state) THEN 1 ELSE 0)
    /\ UNCHANGED <<program, llm_decision, tool_calls, store_before, day1vars>>

\* lines 346-355: invoke has returned final_state
DriverSync ==
    /\ program = "day2" /\ pc = "done"
    /\ current_state' = DriverCarry(current_state, state)
    /\ pc' = "input"
    /\ UNCHANGED <<program, state, store, failure, llm_decision, stages,
                   llm_calls, tool_calls, turns, store_before, day1vars>>

(***************************************************************************)
(* day1: multi_round_chat (lines 64-116)                                    *)
(***************************************************************************)
\* the last message of the states the agent streams after the input state:
\* a reply, a tool-calling AIMessage without content, a ToolMessage
AgentMessages ==
    {AIMessage(<<"r1">>), AIMessage(<<"hi">>), AIMessage(<<>>),
     ToolMessage(<<"search-result">>)}

\* mutant: the equality scan of line 105 is missing
HandleEventNoScan(history, latest_message) ==
    IF latest_message.content # <<>>
    THEN Append(history, AIMessage(latest_message.content))
    ELSE history

\* lines 103-106: what handling one event does to the history
HandleEvent(history, latest_message) ==
    IF /\ latest_message.content # <<>>
       /\ ~\E i \in 1..Len(history) :
             history[i].type = "ai" /\ history[i].content = latest_message.content
    THEN Append(history, AIMessage(latest_message.content))
    ELSE history

\* list.pop() of line 116
Pop(history) == SubSeq(history, 1, Len(history) - 1)

\* lines 77-91: a non-blank, non-exit line is appended and the stream starts
ChatAsk ==
    /\ program = "day1" /\ chat_pc = "input" /\ chat_turns < MaxChatTurns
    /\ \E line \in UserInputs :
        /\ Strip(line) # ExitPhrase /\ Strip(line) # <<>>
        /\ conversation_history' =
              Append(conversation_history, HumanMessage(Strip(line)))
    /\ history_before' = conversation_history
    /\ chat_pc' = "stream" /\ n_events' = 0 /\ chat_outcome' = "running"
    /\ chat_turns' = chat_turns + 1
    /\ deduped' = FALSE
    /\ UNCHANGED <<program, replies, day2vars>>

\* lines 84-87
ChatBlank ==
    /\ program = "day1" /\ chat_pc = "input" /\ chat_turns < MaxChatTurns
    /\ \E line \in UserInputs : Strip(line) = <<>>
    /\ history_before' = conversation_history
    /\ chat_outcome' = "blank"
    /\ chat_turns' = chat_turns + 1
    /\ UNCHANGED <<program, chat_pc, conversation_history, n_events, replies,
                   deduped, day2vars>>

\* lines 79-82
ChatExit ==
    /\ program = "day1" /\ chat_pc = "input"
    /\ \E line \in UserInputs : Strip(line) = ExitPhrase
    /\ chat_pc' = "exited"
    /\ UNCHANGED <<program, conversation_history, history_before, n_events,
                   chat_outcome, chat_turns, replies, deduped, day2vars>>

\* lines 96-109, one iteration: stream_mode="values" first yields the input
\* state, whose last message is the user's, then the states the agent produces
ChatEvent ==
    /\ program = "day1" /\ chat_pc = "stream" /\ n_events < MaxEvents
    /\ \E latest_message \in
            (IF n_events = 0
             THEN {conversation_history[Len(history_before) + 1]}
             ELSE AgentMessages) :
        /\ conversation_history' = HandleEvent(conversation_history, latest_message)
        /\ replies' = IF n_events > 0 /\ latest_message.type = "ai"
                      THEN replies \cup {latest_message.content} ELSE replies
        /\ deduped' = (deduped \/ (latest_message.content # <<>> /\
              HandleEvent(conversation_history, latest_message) = conversation_history))
    /\ n_events' = n_events + 1
    /\ UNCHANGED <<program, chat_pc, history_before, chat_outcome, chat_turns,
                   day2vars>>

\* the stream is exhausted after the input state and the agent's states
ChatStreamEnd ==
    /\ program = "day1" /\ chat_pc = "stream" /\ n_events >= 2
    /\ chat_pc' = "input" /\ chat_outcome' = "ok"
    /\ UNCHANGED <<program, conversation_history, history_before, n_events,
                   chat_turns, replies, deduped, day2vars>>

\* lines 111-116: the stream raises, before or after any event
ChatStreamError ==
    /\ program = "day1" /\ chat_pc = "stream"
    /\ conversation_history' = Pop(conversation_history)
    /\ chat_pc' = "input" /\ chat_outcome' = "error"
    /\ UNCHANGED <<program, history_before, n_events, chat_turns, replies,
                   deduped, day2vars>>

(***************************************************************************)
(* Specification                                                            *)
(***************************************************************************)
Init ==
    /\ program \in {"day1", "day2"}
    /\ pc = "input"
    /\ current_state = get_initial_state
    /\ state = get_initial_state
    /\ store = [t \in ThreadIds |-> NoCheckpoint]
    /\ failure = "none"
    /\ llm_decision = LlmNone
    /\ stages = <<>> /\ llm_calls = 0 /\ tool_calls = 0
    /\ turns = <<>>
    /\ store_before = [t \in ThreadIds |-> NoCheckpoint]
    /\ chat_pc = "input"
    /\ conversation_history = <<>>
    /\ history_before = <<>>
    /\ n_events = 0
    /\ chat_outcome = "none"
    /\ chat_turns = 0
    /\ replies = {}
    /\ deduped = FALSE

Next ==
    \/ DriverInvoke
    \/ DriverExit
    \/ ThinkStep
    \/ ToolStep
    \/ AnswerStep
    \/ DriverSync
    \/ ChatAsk
    \/ ChatBlank
    \/ ChatExit
    \/ ChatEvent
    \/ ChatStreamEnd
    \/ ChatStreamError

Spec == Init /\ [][Next]_vars

(***************************************************************************)
(* Properties                                                               *)
(***************************************************************************)
Day2 == program = "day2"
Day1 == program = "day1"

\* the history that the completed turns of the log account for: for each turn
\* with a non-blank input, its stripped input and then its answer
RECURSIVE CommittedHistory(_)
CommittedHistory(log) ==
    IF log = <<>> THEN <<>>
    ELSE LET last == log[Len(log)]
         IN CommittedHistory(SubSeq(log, 1, Len(log) - 1)) \o
            (IF Strip(last.user_input) # <<>>
             THEN <<HumanMessage(Strip(last.user_input)), AIMessage(last.final_answer)>>
             ELSE <<>>)

NonBlankTurns(log) == {i \in 1..Len(log) : Strip(log[i].user_input) # <<>>}

\* the driver is between turns
BetweenTurns == pc \in {"input", "exited"}

\* C1 as stated: after N completed turns, with any inputs, the history has
\* exactly 2*N entries.
C1_LengthTwiceAllTurns ==
    (Day2 /\ pc = "done") => Len(state.chat_history) = 2 * Len(turns)

\* C1 amended: after the completed turns of a session, the history (returned by
\* the graph, held by the driver, and persisted) is, for each completed turn
\* with a non-blank input and in the order of the turns, the user's entry
\* followed by the assistant's entry: its length is twice the number of
\* completed turns with a non-blank input; blank-input turns add nothing.
C1_HistoryOfNonBlankTurns ==
    Day2 =>
      /\ pc = "done" =>
           /\ state.chat_history = CommittedHistory(turns)
           /\ Len(state.chat_history) = 2 * Cardinality(NonBlankTurns(turns))
      /\ BetweenTurns =>
           /\ current_state.chat_history = CommittedHistory(turns)
           /\ Len(current_state.chat_history) = 2 * Cardinality(NonBlankTurns(turns))
      /\ (pc = "done" \/ BetweenTurns) =>
           PersistedHistory(store[thread_id]) = CommittedHistory(turns)

C1_Witness ==
    /\ Day2 /\ pc = "input" /\ Len(turns) = 2
    /\ current_state.chat_history =
         <<HumanMessage(<<"hi">>), AIMessage(<<"a1">>),
           HumanMessage(<<"q2">>), AIMessage(<<"a2">>)>>

\* C2 as stated: when answer_node's model call raises, the stored snapshot of
\* the session is identical, in every field, to the one before the turn.
C2_SnapshotIdenticalAfterAnswerFailure ==
    (Day2 /\ failure = "answer" /\ store_before[thread_id].exists) =>
        store[thread_id] = store_before[thread_id]

\* C3 as stated: after the error handler of multi_round_chat, the history
\* equals its value before the failed turn's user message was appended.
C3_ErrorRestoresHistory ==
    (Day1 /\ chat_outcome = "error") => conversation_history = history_before

\* C4: when answer_node's model call fails, the chat_history persisted for
\* the session is the one persisted after the last completed turn (empty when
\* there is none): neither the failed turn's user message nor an assistant
\* message is added.
C4_PersistedHistoryKeptOnAnswerFailure ==
    (Day2 /\ failure = "answer") =>
        /\ PersistedHistory(store[thread_id]) = CommittedHistory(turns)
        /\ PersistedHistory(store[thread_id]) = PersistedHistory(store_before[thread_id])

C4_Witness ==
    /\ Day2 /\ failure = "answer" /\ Len(turns) = 1
    /\ PersistedHistory(store[thread_id]) = <<HumanMessage(<<"hi">>), AIMessage(<<"a1">>)>>
    /\ Strip(state.user_input) = <<"q2">>

\* think_node has returned in the current (or last) turn
AfterThink == Day2 /\ Len(stages) >= 1 /\ failure # "think"

\* tool_node was entered in the current (or last) turn
ToolRan == Day2 /\ Len(stages) >= 2 /\ stages[2] = "tool"

\* C5 as stated: the tool_name leaving think_node is empty or registered.
C5_DecisionNameRegistered ==
    AfterThink => state.tool_name \in tools \cup {<<>>}

\* C5 amended: the tool_name leaving think_node is either empty or the name
\* the model returned with surrounding whitespace stripped, registered or
\* not; a name outside the registry does leave the Decision Stage and is
\* refused only by tool_node, which invokes no tool for it and reports it
\* as unknown.
C5_DecisionNameStrippedModelName ==
    AfterThink =>
      /\ state.tool_name = Strip(state.tool_name)
      /\ state.tool_name # <<>> =>
           /\ llm_decision.json /\ llm_decision.value.t = "dict"
           /\ "tool_name" \in llm_decision.value.keys
           /\ llm_decision.value.tool_name.t = "str"
           /\ state.tool_name = Strip(llm_decision.value.tool_name.s)
      /\ (state.tool_name \notin tools \cup {<<>>} /\ Len(stages) >= 2) =>
           /\ stages[2] = "tool" /\ tool_calls = 0
           /\ state.tool_result = <<"unknown-tool:">> \o state.tool_name

C5_Witness ==
    /\ Day2 /\ pc = "answer" /\ state.tool_name = <<"search">>
    /\ state.tool_result = <<"unknown-tool:", "search">>

\* a response that is an exception, not JSON, not an object, an object
\* missing a key, or an object with a key of the wrong type
Malformed(resp) ==
    \/ resp.kind = "raise"
    \/ ~resp.json
    \/ resp.value.t # "dict"
    \/ resp.value.keys # BothKeys
    \/ resp.value.tool_name.t # "str"
    \/ resp.value.tool_input.t # "dict"

\* C6 as stated: on every malformed outcome of the model call think_node
\* returns normally with the empty decision and the turn goes to ANSWER.
C6_MalformedDecisionDegrades ==
    (Day2 /\ Len(stages) >= 1 /\ Malformed(llm_decision)) =>
        /\ failure # "think"
        /\ state.tool_name = <<>> /\ state.tool_input = JDict({})
        /\ Len(stages) = 1 => pc = "answer"
        /\ Len(stages) >= 2 => stages[2] = "answer"

\* C7: tool_node never raises: entered with an unregistered name or with a
\* registered tool whose execution fails, it stores a non-empty text that
\* describes the failure, the turn goes on to ANSWER, and it completes when
\* the answer model returns.
C7_ToolNodeNeverRaises ==
    /\ Day2 => failure # "tool"
    /\ ToolRan =>
        /\ state.tool_result # <<>>
        /\ state.tool_name \notin tools =>
             state.tool_result = <<"unknown-tool:">> \o state.tool_name
        /\ (state.tool_name \in tools
              /\ ~ToolArgs(state.tool_name, state.tool_input).ok) =>
             state.tool_result = <<"tool-error:">>
        /\ (state.tool_name = <<"calculator">>
              /\ ToolArgs(state.tool_name, state.tool_input).ok
              /\ ~eval(ToolArgs(state.tool_name, state.tool_input).arg).ok) =>
             state.tool_result = <<"calc-failed:">>
        /\ Len(stages) = 2 => pc = "answer"
        /\ Len(stages) >= 3 => stages[3] = "answer"
        /\ (Len(stages) >= 3 /\ failure = "none") =>
             pc \in {"done", "input", "exited"}

C7_Witness ==
    /\ Day2 /\ pc = "done" /\ stages = <<"think", "tool", "answer">>
    /\ state.tool_name = <<"calculator">>
    /\ state.tool_input = Expr(<<"1+">>)
    /\ state.tool_result = <<"calc-failed:">>

\* C8: a turn whose input is empty or blank calls no model, runs no tool and
\* leaves the history as it was, in memory and in the checkpoint (day2); the
\* chat loop (day1) skips such a line without touching its history.
C8_BlankInputTouchesNothing ==
    /\ (Day2 /\ Strip(state.user_input) = <<>>) =>
        /\ llm_calls = 0 /\ tool_calls = 0
        /\ \A i \in 1..Len(stages) : stages[i] # "tool"
        /\ failure = "none"
        /\ state.chat_history = current_state.chat_history
        /\ PersistedHistory(store[thread_id]) = PersistedHistory(store_before[thread_id])
    /\ (Day1 /\ chat_outcome = "blank") => conversation_history = history_before

C8_Witness ==
    /\ Day2 /\ pc = "done" /\ state.user_input = <<WS>>
    /\ stages = <<"think", "answer">>
    /\ state.final_answer = ClarifyReply
    /\ Len(state.chat_history) = 2

\* C9: THINK runs first; after THINK, TOOL runs exactly when tool_name is
\* non-blank, whatever the other fields hold; TOOL is followed by ANSWER;
\* ANSWER is followed by DONE; ANSWER never precedes THINK or TOOL.
C9_StageOrder ==
    Day2 =>
      /\ pc = "think" => stages = <<>>
      /\ Len(stages) >= 1 => stages[1] = "think"
      /\ stages \in {<<>>, <<"think">>, <<"think", "tool">>, <<"think", "answer">>,
                     <<"think", "tool", "answer">>}
      /\ (Len(stages) = 1 /\ failure = "none") =>
           pc = (IF Strip(state.tool_name) # <<>> THEN "tool" ELSE "answer")
      /\ (Len(stages) >= 2) =>
           (stages[2] = "tool" <=> Strip(state.tool_name) # <<>>)
      /\ stages = <<"think", "tool">> => pc = "answer"
      /\ pc = "answer" => stages \in {<<"think">>, <<"think", "tool">>}
      /\ (stages # <<>> /\ stages[Len(stages)] = "answer" /\ failure = "none") =>
           pc \in {"done", "input", "exited"}
      /\ pc = "done" => stages[Len(stages)] = "answer"

C9_Witness ==
    /\ Day2 /\ pc = "answer" /\ stages = <<"think">>
    /\ state.tool_name = <<>> /\ state.tool_input = Expr(<<"1+1">>)

Count(seq, x) == Cardinality({i \in 1..Len(seq) : seq[i] = x})

\* C10: a completed turn has run ANSWER exactly once and TOOL at most once
\* (so at most one tool invocation stands behind its one final_answer), and
\* no stage is ever entered twice within a turn.
C10_OneAnswerAtMostOneTool ==
    Day2 =>
      /\ \A n \in {"think", "tool", "answer"} : Count(stages, n) <= 1
      /\ tool_calls <= 1 /\ llm_calls <= 2
      /\ pc = "done" =>
           /\ Count(stages, "answer") = 1 /\ Count(stages, "think") = 1
           /\ state.final_answer = turns[Len(turns)].final_answer

C10_Witness ==
    /\ Day2 /\ pc = "done" /\ tool_calls = 1 /\ Count(stages, "tool") = 1
    /\ Count(stages, "answer") = 1 /\ state.final_answer = <<"a1">>

\* no two assistant entries of the history have the same content
NoDuplicateAssistant(history) ==
    \A i, j \in 1..Len(history) :
        (i < j /\ history[i].type = "ai" /\ history[j].type = "ai") =>
            history[i].content # history[j].content

C12_CheckpointIsFinalState ==
    Day2 =>
      /\ pc = "done" => store[thread_id] = Checkpoint(state)
      /\ (BetweenTurns /\ turns # <<>>) =>
           /\ store[thread_id] = Checkpoint(state)
           /\ store[thread_id].channel_values.chat_history = current_state.chat_history
           /\ store[thread_id].channel_values.final_answer = turns[Len(turns)].final_answer
      /\ (BetweenTurns /\ turns = <<>>) => ~store[thread_id].exists

C12_Witness ==
    /\ Day2 /\ pc = "done" /\ Len(turns) = 2
    /\ store_before[thread_id].exists
    /\ store_before[thread_id].channel_values.tool_result # <<>>
    /\ store[thread_id].channel_values.tool_result = <<>>
    /\ Len(store[thread_id].channel_values.chat_history) = 4
    /\ store[thread_id].channel_values.final_answer = <<"a2">>

\* the graph is about to run its first node
TurnStart == Day2 /\ pc = "think" /\ stages = <<>>

C15_StageFrames ==
    [][Day2 =>
        /\ (pc = "think" /\ pc' # "think") =>
             /\ state' = [state EXCEPT !.tool_name = state'.tool_name,
                                       !.tool_input = state'.tool_input]
             /\ current_state' = current_state
        /\ (pc = "tool" /\ pc' # "tool") =>
             /\ state' = [state EXCEPT !.tool_result = state'.tool_result]
             /\ current_state' = current_state
        /\ (pc = "answer" /\ pc' # "answer") =>
             /\ state' = [state EXCEPT !.final_answer = state'.final_answer,
                                       !.chat_history = state'.chat_history]
             /\ current_state' = current_state]_vars

C15_Witness ==
    /\ Day2 /\ pc = "done" /\ stages = <<"think", "tool", "answer">>
    /\ state.user_input = <<WS, "q2", WS>>
    /\ state.tool_name = <<"calculator">> /\ state.tool_input = Expr(<<"1+1">>)
    /\ state.tool_result = <<"calc-result:", "1+1", "=", "2">>
    /\ state.final_answer = <<"a1">>
    /\ state.chat_history = <<HumanMessage(<<"q2">>), AIMessage(<<"a1">>)>>
    /\ current_state.chat_history = <<>>

\* a turn is in progress
InTurn == Day2 /\ pc \in {"think", "tool", "answer"}

\* C16: a started turn ends, at DONE or with a failure, after at most three
\* stage executions: while it runs a stage is always enabled (never stuck),
\* every stage execution advances the turn (think at 0, tool at 1, answer at
\* 1 or 2 executed stages), so no state of the turn recurs.
C16_TurnEndsWithinThreeStages ==
    Day2 =>
      /\ pc \in {"input", "think", "tool", "answer", "done", "crashed", "exited"}
      /\ Len(stages) <= 3
      /\ InTurn => ENABLED (ThinkStep \/ ToolStep \/ AnswerStep)
      /\ pc = "think" => Len(stages) = 0
      /\ pc = "tool" => Len(stages) = 1
      /\ pc = "answer" => Len(stages) \in {1, 2}
      /\ pc = "done" => (Len(stages) \in {2, 3} /\ failure = "none")
      /\ pc = "crashed" => (Len(stages) \in {1, 2, 3} /\ failure # "none")

C16_Witness ==
    /\ Day2 /\ pc = "crashed" /\ failure = "answer"
    /\ stages = <<"think", "tool", "answer">>

IsPrefix(a, b) == Len(a) <= Len(b) /\ SubSeq(b, 1, Len(a)) = a

\* user, assistant, user, assistant, ...
Alternates(history) ==
    \A i \in 1..Len(history) :
        history[i].type = (IF i % 2 = 1 THEN "human" ELSE "ai")

\* C17: in the memory agent the history before a turn (the driver's, and
\* the persisted one) is a prefix of the history after it, and the entries
\* alternate user, assistant, starting with user.
C17_AppendOnlyAlternating ==
    Day2 =>
      /\ IsPrefix(current_state.chat_history, state.chat_history)
      /\ IsPrefix(PersistedHistory(store_before[thread_id]),
                  PersistedHistory(store[thread_id]))
      /\ IsPrefix(PersistedHistory(store_before[thread_id]), state.chat_history)
      /\ Alternates(state.chat_history)
      /\ Alternates(current_state.chat_history)
      /\ Alternates(PersistedHistory(store[thread_id]))

C17_Witness ==
    /\ Day2 /\ pc = "done" /\ Len(turns) = 2
    /\ PersistedHistory(store_before[thread_id]) =
         <<HumanMessage(<<"hi">>), AIMessage(<<"a1">>)>>
    /\ state.chat_history =
         <<HumanMessage(<<"hi">>), AIMessage(<<"a1">>),
           HumanMessage(<<"hi">>), AIMessage(<<"a1">>)>>

\* the turn went from THINK straight to ANSWER
DirectToAnswer ==
    /\ Day2 /\ Len(stages) >= 1 /\ failure # "think"
    /\ Len(stages) = 1 => pc = "answer"
    /\ Len(stages) >= 2 => stages[2] = "answer"

\* C18: in a turn routed from THINK straight to ANSWER, the tool_result that
\* answer_node reads and that is left in the final state (and in its
\* checkpoint) is empty, even after an earlier turn that ran a tool.
C18_NoStaleToolResult ==
    DirectToAnswer =>
      /\ state.tool_result = <<>>
      /\ store[thread_id].channel_values.tool_result = <<>>

C18_Witness ==
    /\ DirectToAnswer /\ pc = "done" /\ Len(turns) = 2
    /\ Strip(state.user_input) # <<>>
    /\ store_before[thread_id].channel_values.tool_result =
         <<"calc-result:", "1+1", "=", "2">>
    /\ state.tool_result = <<>>

\* C19 as stated: every assistant entry of conversation_history carries the
\* content of a reply (an AIMessage) the agent produced; the user's message
\* and other non-agent messages are never recorded as assistant entries.
C19_AssistantEntriesAreAgentReplies ==
    Day1 =>
      \A i \in 1..Len(conversation_history) :
          conversation_history[i].type = "ai" =>
              conversation_history[i].content \in replies

====
